---- MODULE Spec2Model ----
(***************************************************************************)
(* Model of src/monitoring/discord_notifier.py (DiscordNotifier and the    *)
(* alert_* convenience functions) and src/monitoring/prometheus_metrics.py *)
(* (setup_prometheus, update_db_status, the database_status gauge).        *)
(*                                                                         *)
(* Conventions                                                             *)
(*  - Python None is the sentinel string None; no input string equals it.  *)
(*  - A dict is a sequence of <<key, value>> pairs in insertion order.     *)
(*  - An Optional[dict] argument is [given |-> BOOLEAN, items |-> dict].   *)
(*  - A metric value is [s |-> string] or [i |-> integer].                 *)
(*  - Non-ASCII glyphs of the source's string literals are written as      *)
(*    their short codes (":rotating_light:", ":x:", ":white_check_mark:"). *)
(*  - accuracy/threshold of alert_model_degradation are in basis points    *)
(*    (7800 stands for the float 0.78).                                    *)
(***************************************************************************)
EXTENDS Integers, Sequences, FiniteSets, TLC

VARIABLES
  environ,          \* process environment: DISCORD_WEBHOOK_URL, ENABLE_PROMETHEUS
  notifier,         \* the module-level DiscordNotifier instance
  sendCalls,        \* number of send_alert calls made so far
  posts,            \* number of requests.post attempts made so far
  wire,             \* payloads posted by the last operation
  stdout,           \* lines printed by the last operation
  database_status,  \* value of the cv_database_connected gauge
  dbWrites,         \* arguments of the update_db_status calls made so far
  app,              \* host service: middleware layers and registered routes
  setupCalls,       \* number of setup_prometheus calls made so far
  clock,            \* the system clock, in whole seconds
  cv_predictions_total,  \* value of the cv_predictions_total counter
  counterLock,      \* the counter's mutex: 0 when free, else the holding caller
  threads,          \* per caller: position in inc(), value read, calls completed
  incCalls,         \* number of inc() calls started so far
  lastOp            \* the last operation: name, arguments, calls, outcome

vars == <<environ, notifier, sendCalls, posts, wire, stdout,
          database_status, dbWrites, app, setupCalls, clock,
          cv_predictions_total, counterLock, threads, incCalls, lastOp>>

metricVars == <<database_status, dbWrites, app, setupCalls>>

counterVars == <<cv_predictions_total, counterLock, threads, incCalls>>

(***************************************************************************)
(* Bounds of the model.                                                    *)
(***************************************************************************)
MaxCalls == 2

MaxSetup == 2

MaxDbWrites == 2

MaxTick == 1

MaxCallers == 2

MaxIncs == 3

None == "<None>"

(***************************************************************************)
(* Input domains.                                                          *)
(***************************************************************************)
WebhookValues == {None, "", "https://discord.com/api/webhooks/1/token"}

FlagValues == {None, "true", "True", "1"}

Levels == {"info", "warning", "error", "critical", "debug"}

NoMetrics == [given |-> FALSE, items |-> <<>>]

MetricsArgs ==
  { NoMetrics,
    [given |-> TRUE, items |-> <<>>],
    [given |-> TRUE, items |-> << <<"b", [i |-> 12]>>, <<"a", [s |-> "x"]>> >>] }

\* <<title, message, level, metrics>> arguments of a direct send_alert call:
\* every level with every metrics argument, and the empty title and message.
AlertArgs ==
  { <<"Disk", "full", level, metrics>> : level \in Levels, metrics \in MetricsArgs }
    \cup { <<"", "", "info", metrics>> : metrics \in {NoMetrics, [given |-> TRUE, items |-> <<>>]} }
    \cup { <<"", "", "verbose", NoMetrics>> }

Outcomes ==
  { [exc |-> "ConnectionError"], [exc |-> "Timeout"],
    [status |-> 204], [status |-> 500] }

Accuracies == {7800, 8500, 9000}

AccuracyThresholds == {8500, 9000}

Latencies == {-1, 0, 2000, 3000}

LatencyThresholds == {-2, 0, 2000}

Versions == {"", "v3.2.1"}

\* The concurrent call sites that increment cv_predictions_total.
Callers == 1..MaxCallers

(***************************************************************************)
(* Python built-ins used by the source.                                    *)
(***************************************************************************)
getenv(env, key, default) ==
  IF env[key] = None THEN default ELSE env[key]

\* Variant: `is not None` instead of truthiness.
bool_is_not_none(s) ==
  s # None

bool(s) ==
  s # None /\ s # ""

lower(s) ==
  CASE s = "True" -> "true"
    [] s = "TRUE" -> "true"
    [] s = "False" -> "false"
    [] OTHER -> s

Digit(d) ==
  CASE d = 0 -> "0" [] d = 1 -> "1" [] d = 2 -> "2" [] d = 3 -> "3"
    [] d = 4 -> "4" [] d = 5 -> "5" [] d = 6 -> "6" [] d = 7 -> "7"
    [] d = 8 -> "8" [] d = 9 -> "9"

RECURSIVE NatStr(_)
NatStr(n) ==
  IF n < 10 THEN Digit(n) ELSE NatStr(n \div 10) \o Digit(n % 10)

Abs(n) ==
  IF n < 0 THEN -n ELSE n

IntStr(n) ==
  IF n < 0 THEN "-" \o NatStr(-n) ELSE NatStr(n)

str(v) ==
  IF "s" \in DOMAIN v THEN v.s ELSE IntStr(v.i)

\* f"{x:.2%}" for x = bp / 10000
Pct2(bp) ==
  (IF bp < 0 THEN "-" ELSE "")
    \o NatStr(Abs(bp) \div 100) \o "." \o Digit((Abs(bp) % 100) \div 10)
    \o Digit(Abs(bp) % 10) \o "%"

\* f"{n:.0f}" for an integer n
Fmt0f(n) ==
  IntStr(n)

\* f"{(l / t):.1f}" for integers l and t # 0: true division, then rounding
\* to one decimal (half to even); 0 / negative is -0.0 and prints "-0.0".
\* Exact for the quotients of Latencies and LatencyThresholds, none of which
\* lies halfway between two tenths without being a binary fraction.
Fmt1f(l, t) ==
  LET a == 10 * Abs(l)
      b == Abs(t)
      q == a \div b
      r == a % b
      tenths == IF 2 * r > b THEN q + 1
                ELSE IF 2 * r = b /\ q % 2 = 1 THEN q + 1
                ELSE q
  IN (IF (l < 0) # (t < 0) THEN "-" ELSE "")
       \o NatStr(tenths \div 10) \o "." \o Digit(tenths % 10)

\* datetime.utcnow().isoformat() at whole second `now` after the epoch
isoformat(now) ==
  "1970-01-01T00:00:0" \o Digit(now)

\* datetime.now().strftime("%Y-%m-%d %H:%M:%S"), local time taken as UTC
strftime(now) ==
  "1970-01-01 00:00:0" \o Digit(now)

Truthy(metrics) ==
  metrics.given /\ metrics.items # <<>>

Dict(items) ==
  [given |-> TRUE, items |-> items]

(***************************************************************************)
(* DiscordNotifier                                                         *)
(***************************************************************************)
DiscordNotifier_init(env) ==
  LET webhook_url == getenv(env, "DISCORD_WEBHOOK_URL", None)
  IN [webhook_url |-> webhook_url, enabled |-> bool(webhook_url)]

\* Variant: colors[level] semantics, no colour for an unknown level.
colors_get_no_default(level, default) ==
  CASE level = "info" -> 3447003
    [] level = "warning" -> 16776960
    [] level = "error" -> 15158332
    [] level = "critical" -> 10038562
    [] OTHER -> 0

colors_get(level, default) ==
  CASE level = "info" -> 3447003
    [] level = "warning" -> 16776960
    [] level = "error" -> 15158332
    [] level = "critical" -> 10038562
    [] OTHER -> default

\* Variant: the fields are emitted in reverse of the mapping's order.
embed_fields_reversed(items) ==
  [k \in 1..Len(items) |->
     [name |-> items[Len(items) + 1 - k][1],
      value |-> str(items[Len(items) + 1 - k][2]),
      inline |-> TRUE]]

embed_fields(items) ==
  [k \in 1..Len(items) |->
     [name |-> items[k][1], value |-> str(items[k][2]), inline |-> TRUE]]

build_payload(title, message, level, metrics, now) ==
  LET base == [title |-> ":rotating_light: " \o title,
               description |-> message,
               color |-> colors_get(level, 3447003),
               timestamp |-> isoformat(now),
               footer |-> [text |-> "CV Cats & Dogs Monitoring"]]
      embed == IF Truthy(metrics)
               THEN base @@ [fields |-> embed_fields(metrics.items)]
               ELSE base
  IN [username |-> "MLOps Bot", embeds |-> <<embed>>]

\* The exception raised inside the try block by requests.post or by
\* response.raise_for_status(), "none" when the block completes.
try_post(outcome) ==
  IF "exc" \in DOMAIN outcome THEN outcome.exc
  ELSE IF outcome.status >= 400 /\ outcome.status < 600 THEN "HTTPError"
  ELSE "none"

\* Variant: `except requests.HTTPError`.
except_HTTPError(e) ==
  e = "HTTPError"

\* `except Exception`: the classes the handler catches.
except_Exception(e) ==
  e \in {"ConnectionError", "Timeout", "HTTPError"}

\* Variant: the `if not self.enabled: return` guard is missing.
send_alert_no_guard(self, title, message, level, metrics, outcome, now) ==
  LET payload == build_payload(title, message, level, metrics, now)
      e == try_post(outcome)
  IN [posted |-> <<payload>>,
      printed |-> IF e = "none" THEN <<>>
                  ELSE <<":x: Failed to send Discord alert: " \o e>>,
      raised |-> "none"]

\* Variant: a failed POST is attempted a second time.
send_alert_retry(self, title, message, level, metrics, outcome, now) ==
  LET payload == build_payload(title, message, level, metrics, now)
      e == try_post(outcome)
  IN IF ~self.enabled
     THEN [posted |-> <<>>, printed |-> <<>>, raised |-> "none"]
     ELSE IF e = "none"
     THEN [posted |-> <<payload>>, printed |-> <<>>, raised |-> "none"]
     ELSE [posted |-> <<payload, payload>>,
           printed |-> <<":x: Failed to send Discord alert: " \o e>>,
           raised |-> "none"]

\* Effect of one send_alert call: the payloads put on the wire, the lines
\* printed, and the exception that leaves the call ("none": returns).
send_alert(self, title, message, level, metrics, outcome, now) ==
  IF ~self.enabled
  THEN [posted |-> <<>>, printed |-> <<>>, raised |-> "none"]
  ELSE LET payload == build_payload(title, message, level, metrics, now)
           e == try_post(outcome)
       IN IF e = "none"
          THEN [posted |-> <<payload>>, printed |-> <<>>, raised |-> "none"]
          ELSE IF except_Exception(e)
          THEN [posted |-> <<payload>>,
                printed |-> <<":x: Failed to send Discord alert: " \o e>>,
                raised |-> "none"]
          ELSE [posted |-> <<payload>>, printed |-> <<>>, raised |-> e]

(***************************************************************************)
(* Convenience functions.  Each yields the send_alert calls it makes (the  *)
(* arguments of each) and the exception it raises before making them.      *)
(***************************************************************************)
Call(title, message, level, metrics) ==
  [title |-> title, message |-> message, level |-> level, metrics |-> metrics]

Calls(cs) ==
  [calls |-> cs, raised |-> "none"]

Raises(e) ==
  [calls |-> <<>>, raised |-> e]

\* Variant: `<=` instead of `<`.
below_or_at_threshold(accuracy, threshold) ==
  accuracy <= threshold

\* `if accuracy < threshold:`
below_threshold(accuracy, threshold) ==
  accuracy < threshold

alert_model_degradation(accuracy, threshold) ==
  IF below_threshold(accuracy, threshold)
  THEN Calls(<<Call("Model Performance Degradation",
                    "Model accuracy (" \o Pct2(accuracy)
                      \o ") dropped below threshold (" \o Pct2(threshold) \o ")",
                    "warning",
                    Dict(<< <<"Current Accuracy", [s |-> Pct2(accuracy)]>>,
                            <<"Threshold", [s |-> Pct2(threshold)]>>,
                            <<"Gap", [s |-> Pct2(accuracy - threshold)]>> >>))>>)
  ELSE Calls(<<>>)

\* `if latency_ms > threshold:`
above_threshold(latency_ms, threshold) ==
  latency_ms > threshold

alert_high_latency(latency_ms, threshold) ==
  IF above_threshold(latency_ms, threshold)
  THEN IF threshold = 0
       THEN Raises("ZeroDivisionError")
       ELSE Calls(<<Call("High Inference Latency",
                         "Inference taking " \o IntStr(latency_ms)
                           \o "ms (threshold: " \o IntStr(threshold) \o "ms)",
                         "error",
                         Dict(<< <<"Latency", [s |-> Fmt0f(latency_ms) \o "ms"]>>,
                                 <<"Threshold", [s |-> Fmt0f(threshold) \o "ms"]>>,
                                 <<"Slowdown",
                                   [s |-> "x" \o Fmt1f(latency_ms, threshold)]>> >>))>>)
  ELSE Calls(<<>>)

alert_database_disconnected ==
  Calls(<<Call("Database Connection Lost",
               "PostgreSQL database is unreachable. All feedback storage is currently disabled.",
               "critical",
               Dict(<< <<"Service", [s |-> "PostgreSQL"]>>,
                       <<"Impact", [s |-> ":x: Feedback storage offline"]>>,
                       <<"Action", [s |-> "Check docker logs cv_postgres"]>> >>))>>)

alert_deployment_success(version, now) ==
  Calls(<<Call("Deployment Successful",
               "Version " \o version \o " deployed successfully to production",
               "info",
               Dict(<< <<"Version", [s |-> version]>>,
                       <<"Status", [s |-> ":white_check_mark: Running"]>>,
                       <<"Timestamp", [s |-> strftime(now)]>> >>))>>)

\* Variant: level "warning", as the comment on the level line says.
alert_new_prediction_warning ==
  Calls(<<Call("New project",
               "Le modele a ete utilise pour une prediction",
               "warning",
               NoMetrics)>>)

alert_new_prediction ==
  Calls(<<Call("New project",
               "Le modele a ete utilise pour une prediction",
               "info",
               NoMetrics)>>)

(***************************************************************************)
(* prometheus_metrics                                                      *)
(***************************************************************************)
\* Variant: the default of the flag is 'true'.
MetricsFlag_default_true(env) ==
  lower(getenv(env, "ENABLE_PROMETHEUS", "true")) = "true"

MetricsFlag(env) ==
  lower(getenv(env, "ENABLE_PROMETHEUS", "false")) = "true"

\* Instrumentator().instrument(app).expose(app, endpoint="/metrics"):
\* instrument adds one middleware layer, expose registers one GET route.
setup_prometheus(env, a) ==
  IF MetricsFlag(env)
  THEN [a |-> [middleware |-> Append(a.middleware, "PrometheusInstrumentatorMiddleware"),
               routes |-> Append(a.routes, "/metrics")],
        printed |-> <<":white_check_mark: Prometheus metrics enabled at /metrics">>]
  ELSE [a |-> a, printed |-> <<":information_source: Prometheus metrics disabled">>]

\* Variant: a disconnection does not reset the gauge.
update_db_status_no_reset(is_connected) ==
  IF is_connected THEN 1 ELSE database_status

update_db_status(is_connected) ==
  IF is_connected THEN 1 ELSE 0

\* The host service's answer to GET path: found iff a route is registered.
http_get(a, path) ==
  IF \E k \in 1..Len(a.routes) : a.routes[k] = path THEN 200 ELSE 404

(***************************************************************************)
(* State machine.                                                          *)
(***************************************************************************)
Op(name, args, outcome, calls, raised, status) ==
  [op |-> name, args |-> args, outcome |-> outcome, calls |-> calls,
   raised |-> raised, status |-> status]

NoOutcome ==
  [none |-> TRUE]

\* State after the two modules are imported: the environment is read, the
\* notifier singleton is constructed, the gauge is created at 0 and the
\* host service has no middleware and no scrape route.
Init ==
  /\ environ \in [DISCORD_WEBHOOK_URL : WebhookValues,
                  ENABLE_PROMETHEUS : FlagValues]
  /\ notifier = DiscordNotifier_init(environ)
  /\ sendCalls = 0
  /\ posts = 0
  /\ wire = <<>>
  /\ stdout = <<>>
  /\ database_status = 0
  /\ dbWrites = <<>>
  /\ app = [middleware |-> <<>>, routes |-> <<>>]
  /\ setupCalls = 0
  /\ clock = 0
  /\ cv_predictions_total = 0
  /\ counterLock = 0
  /\ threads = [c \in Callers |-> [pc |-> "idle", read |-> 0, done |-> 0]]
  /\ incCalls = 0
  /\ lastOp = Op("import", <<>>, NoOutcome, <<>>, "none", 0)

NoEffect ==
  [posted |-> <<>>, printed |-> <<>>, raised |-> "none"]

\* One invocation of a notifier entry point whose body makes the send_alert
\* calls r.calls (at most one) on the singleton, or raises r.raised first.
Run(name, args, r, outcome) ==
  LET e == IF r.calls = <<>> THEN NoEffect
           ELSE send_alert(notifier, r.calls[1].title, r.calls[1].message,
                           r.calls[1].level, r.calls[1].metrics, outcome, clock)
  IN /\ sendCalls' = sendCalls + Len(r.calls)
     /\ posts' = posts + Len(e.posted)
     /\ wire' = e.posted
     /\ stdout' = e.printed
     /\ lastOp' = Op(name, args, outcome, r.calls,
                     IF r.raised # "none" THEN r.raised ELSE e.raised, 0)
     /\ UNCHANGED <<environ, notifier, metricVars, clock, counterVars>>

SendAlert ==
  \E a \in AlertArgs, outcome \in Outcomes :
    /\ sendCalls < MaxCalls
    /\ Run("send_alert", <<>>, Calls(<<Call(a[1], a[2], a[3], a[4])>>), outcome)

AlertModelDegradation ==
  \E accuracy \in Accuracies, threshold \in AccuracyThresholds,
     outcome \in Outcomes :
    /\ sendCalls < MaxCalls
    /\ Run("alert_model_degradation",
        [accuracy |-> accuracy, threshold |-> threshold],
        alert_model_degradation(accuracy, threshold), outcome)

AlertHighLatency ==
  \E latency_ms \in Latencies, threshold \in LatencyThresholds,
     outcome \in Outcomes :
    /\ sendCalls < MaxCalls
    /\ Run("alert_high_latency",
        [latency_ms |-> latency_ms, threshold |-> threshold],
        alert_high_latency(latency_ms, threshold), outcome)

AlertDatabaseDisconnected ==
  \E outcome \in Outcomes :
    /\ sendCalls < MaxCalls
    /\ Run("alert_database_disconnected", <<>>,
        alert_database_disconnected, outcome)

AlertDeploymentSuccess ==
  \E version \in Versions, outcome \in Outcomes :
    /\ sendCalls < MaxCalls
    /\ Run("alert_deployment_success", [version |-> version],
        alert_deployment_success(version, clock), outcome)

AlertNewPrediction ==
  \E outcome \in Outcomes :
    /\ sendCalls < MaxCalls
    /\ Run("alert_new_prediction", <<>>, alert_new_prediction, outcome)

UpdateDbStatus ==
  \E is_connected \in BOOLEAN :
    /\ Len(dbWrites) < MaxDbWrites
    /\ database_status' = update_db_status(is_connected)
    /\ dbWrites' = Append(dbWrites, is_connected)
    /\ wire' = <<>>
    /\ stdout' = <<>>
    /\ lastOp' = Op("update_db_status", [is_connected |-> is_connected],
                    NoOutcome, <<>>, "none", 0)
    /\ UNCHANGED <<environ, notifier, sendCalls, posts, app, setupCalls,
                   clock, counterVars>>

SetupPrometheus ==
  /\ setupCalls < MaxSetup
  /\ setupCalls' = setupCalls + 1
  /\ app' = setup_prometheus(environ, app).a
  /\ stdout' = setup_prometheus(environ, app).printed
  /\ wire' = <<>>
  /\ lastOp' = Op("setup_prometheus", <<>>, NoOutcome, <<>>, "none", 0)
  /\ UNCHANGED <<environ, notifier, sendCalls, posts, database_status,
                 dbWrites, clock, counterVars>>

\* A scraper's GET /metrics against the host service.
GetMetrics ==
  /\ wire' = <<>>
  /\ stdout' = <<>>
  /\ lastOp' = Op("GET /metrics", <<>>, NoOutcome, <<>>, "none",
                  http_get(app, "/metrics"))
  /\ UNCHANGED <<environ, notifier, sendCalls, posts, metricVars, clock,
                 counterVars>>

\* The system clock advances by one second.
Tick ==
  /\ clock < MaxTick
  /\ clock' = clock + 1
  /\ UNCHANGED <<environ, notifier, sendCalls, posts, wire, stdout,
                 metricVars, counterVars, lastOp>>

(***************************************************************************)
(* cv_predictions_total.inc() from concurrent call sites.  The counter is  *)
(* safely incrementable from several callers at once: an increment takes   *)
(* the counter's mutex, reads the value, stores the value plus one and     *)
(* releases the mutex.                                                     *)
(***************************************************************************)
otherVars == <<environ, notifier, sendCalls, posts, wire, stdout, metricVars,
               clock, lastOp>>

\* Variant: the increment does not wait for the mutex.
lock_ignored(holder) ==
  TRUE

lock_free(holder) ==
  holder = 0

\* A caller invokes cv_predictions_total.inc().
IncCall ==
  \E c \in Callers :
    /\ threads[c].pc = "idle"
    /\ incCalls < MaxIncs
    /\ incCalls' = incCalls + 1
    /\ threads' = [threads EXCEPT ![c].pc = "acquire"]
    /\ UNCHANGED <<cv_predictions_total, counterLock, otherVars>>

IncAcquire ==
  \E c \in Callers :
    /\ threads[c].pc = "acquire"
    /\ lock_free(counterLock)
    /\ counterLock' = c
    /\ threads' = [threads EXCEPT ![c].pc = "read"]
    /\ UNCHANGED <<cv_predictions_total, incCalls, otherVars>>

IncRead ==
  \E c \in Callers :
    /\ threads[c].pc = "read"
    /\ threads' = [threads EXCEPT ![c].pc = "write",
                                  ![c].read = cv_predictions_total]
    /\ UNCHANGED <<cv_predictions_total, counterLock, incCalls, otherVars>>

IncWrite ==
  \E c \in Callers :
    /\ threads[c].pc = "write"
    /\ cv_predictions_total' = threads[c].read + 1
    /\ threads' = [threads EXCEPT ![c].pc = "release"]
    /\ UNCHANGED <<counterLock, incCalls, otherVars>>

IncRelease ==
  \E c \in Callers :
    /\ threads[c].pc = "release"
    /\ counterLock' = 0
    /\ threads' = [threads EXCEPT ![c].pc = "idle",
                                  ![c].done = threads[c].done + 1]
    /\ UNCHANGED <<cv_predictions_total, incCalls, otherVars>>

CounterNext ==
  \/ IncCall
  \/ IncAcquire
  \/ IncRead
  \/ IncWrite
  \/ IncRelease

\* The operations of discord_notifier.py, and the clock they read.
NotifierNext ==
  \/ SendAlert
  \/ AlertModelDegradation
  \/ AlertHighLatency
  \/ AlertDatabaseDisconnected
  \/ AlertDeploymentSuccess
  \/ AlertNewPrediction
  \/ Tick

\* The operations of prometheus_metrics.py, and the scraper's request.
MetricsNext ==
  \/ UpdateDbStatus
  \/ SetupPrometheus
  \/ GetMetrics

Next ==
  NotifierNext \/ MetricsNext \/ CounterNext

\* The two modules share no state: each is checked on its own operations.
SpecNotifier ==
  Init /\ [][NotifierNext]_vars

SpecMetrics ==
  Init /\ [][MetricsNext]_vars

SpecCounter ==
  Init /\ [][CounterNext]_vars

\* The composition of the two; its state space is the product of theirs.
Spec ==
  Init /\ [][Next]_vars

(***************************************************************************)
(* Properties.                                                             *)
(***************************************************************************)
SentAlert ==
  lastOp.calls # <<>>

PostFailed ==
  SentAlert /\ try_post(lastOp.outcome) # "none"

\* C1: on an enabled dispatcher a send_alert call returns normally whatever
\* the POST did (connection error, timeout, non-success status, success); a
\* failure shows as exactly one printed diagnostic line and a success prints
\* nothing.
C1_NeverRaises ==
  (notifier.enabled /\ SentAlert) =>
    /\ lastOp.raised = "none"
    /\ PostFailed => Len(stdout) = 1
    /\ ~PostFailed => stdout = <<>>

C1_Witness ==
  /\ notifier.enabled
  /\ lastOp.op = "send_alert"
  /\ lastOp.outcome = [exc |-> "ConnectionError"]
  /\ lastOp.raised = "none"
  /\ stdout = <<":x: Failed to send Discord alert: ConnectionError">>

\* C2: a disabled dispatcher never makes an outbound call, prints nothing
\* and returns normally from every send_alert call, whatever the title,
\* message, level and metrics (empty strings, unknown level, empty or absent
\* metrics included).
C2_DisabledSilent ==
  ~notifier.enabled =>
    /\ posts = 0
    /\ wire = <<>>
    /\ stdout = <<>>
    /\ SentAlert => lastOp.raised = "none"

C2_Witness ==
  /\ ~notifier.enabled
  /\ lastOp.op = "send_alert"
  /\ lastOp.calls[1] = Call("", "", "verbose", NoMetrics)
  /\ sendCalls = 2
  /\ posts = 0

\* C3: on an enabled dispatcher the number of POST attempts equals the
\* number of send_alert calls, and each operation that calls send_alert puts
\* exactly one payload on the wire, the one built from that call's arguments
\* (nothing retried, nothing queued from an earlier call).
C3_OnePostPerCall ==
  notifier.enabled =>
    /\ posts = sendCalls
    /\ Len(wire) = Len(lastOp.calls)
    /\ SentAlert =>
         /\ wire[1].embeds[1].title = ":rotating_light: " \o lastOp.calls[1].title
         /\ wire[1].embeds[1].description = lastOp.calls[1].message

C3_Witness ==
  /\ notifier.enabled
  /\ PostFailed
  /\ sendCalls = 2
  /\ posts = 2

\* C4: in every state, enabled holds exactly when the endpoint of the
\* environment is present and non-empty, and the instance still carries the
\* endpoint read at construction, whatever calls were made since.
C4_EnabledFixed ==
  /\ notifier.webhook_url = environ.DISCORD_WEBHOOK_URL
  /\ notifier.enabled <=> environ.DISCORD_WEBHOOK_URL \notin {None, ""}

C4_Witness ==
  /\ environ.DISCORD_WEBHOOK_URL = ""
  /\ ~notifier.enabled
  /\ sendCalls = 2
  /\ lastOp.op = "alert_database_disconnected"

ClaimedColor(level) ==
  IF level = "info" THEN 3447003
  ELSE IF level = "warning" THEN 16776960
  ELSE IF level = "error" THEN 15158332
  ELSE IF level = "critical" THEN 10038562
  ELSE 3447003

\* C5: the colour of the posted record is the fixed colour of the level
\* passed to send_alert, the info colour for any unrecognized level, and the
\* call returns normally.
C5_Colors ==
  (notifier.enabled /\ SentAlert) =>
    /\ Len(wire) = 1
    /\ wire[1].embeds[1].color = ClaimedColor(lastOp.calls[1].level)
    /\ lastOp.raised = "none"

C5_Witness ==
  /\ notifier.enabled
  /\ lastOp.op = "send_alert"
  /\ lastOp.calls[1].level = "verbose"
  /\ wire # <<>>
  /\ wire[1].embeds[1].color = 3447003

\* C6: alert_model_degradation returns normally, calls send_alert exactly
\* once, with level warning, when accuracy < threshold, and not at all
\* otherwise (accuracy equal to the threshold included).
C6_DegradationGate ==
  lastOp.op = "alert_model_degradation" =>
    /\ lastOp.raised = "none"
    /\ Len(lastOp.calls) =
         (IF lastOp.args.accuracy < lastOp.args.threshold THEN 1 ELSE 0)
    /\ \A k \in 1..Len(lastOp.calls) : lastOp.calls[k].level = "warning"

C6_Witness ==
  /\ lastOp.op = "alert_model_degradation"
  /\ lastOp.args = [accuracy |-> 7800, threshold |-> 8500]
  /\ Len(lastOp.calls) = 1
  /\ lastOp.calls[1].metrics.items[3] = <<"Gap", [s |-> "-7.00%"]>>

\* C7: alert_high_latency returns normally, calls send_alert exactly once,
\* with level error, when latency_ms > threshold, and not at all otherwise,
\* for every threshold, zero and negative ones included.
C7_LatencyGate ==
  lastOp.op = "alert_high_latency" =>
    /\ lastOp.raised = "none"
    /\ Len(lastOp.calls) =
         (IF lastOp.args.latency_ms > lastOp.args.threshold THEN 1 ELSE 0)
    /\ \A k \in 1..Len(lastOp.calls) : lastOp.calls[k].level = "error"

C9_GaugeLastWrite ==
  /\ database_status \in {0, 1}
  /\ dbWrites # <<>> =>
       database_status = (IF dbWrites[Len(dbWrites)] THEN 1 ELSE 0)

C9_Witness ==
  /\ dbWrites = <<TRUE, FALSE>>
  /\ database_status = 0

\* The flag is enabled: its value is "true" in any letter case.
FlagEnabled ==
  environ.ENABLE_PROMETHEUS \in {"true", "True"}

\* C10: the host service carries the instrumentation and the scrape route
\* exactly when setup_prometheus was called with the flag enabled; with the
\* flag disabled or absent it carries neither and GET /metrics is not found.
C10_SetupIffFlag ==
  /\ app.middleware # <<>> <=> (FlagEnabled /\ setupCalls > 0)
  /\ http_get(app, "/metrics") = 200 <=> (FlagEnabled /\ setupCalls > 0)
  /\ (~FlagEnabled /\ lastOp.op = "GET /metrics") => lastOp.status = 404
  /\ (~FlagEnabled /\ lastOp.op = "setup_prometheus") =>
       app = [middleware |-> <<>>, routes |-> <<>>]

C10_Witness ==
  /\ environ.ENABLE_PROMETHEUS = None
  /\ setupCalls > 0
  /\ lastOp.op = "GET /metrics"
  /\ lastOp.status = 404

NoApp ==
  [middleware |-> <<>>, routes |-> <<>>]

\* C11: with the flag enabled, the host service after any number of
\* setup_prometheus calls carries the same instrumentation layers and the
\* same single scrape-route registration as after one call.
C11_SetupIdempotent ==
  (FlagEnabled /\ setupCalls >= 1) =>
    /\ app = setup_prometheus(environ, NoApp).a
    /\ Len(app.middleware) = 1
    /\ Len(app.routes) = 1

\* The rendering of a metric value as a display string.
Rendered(v) ==
  IF "i" \in DOMAIN v THEN IntStr(v.i) ELSE v.s

\* C13: the posted record carries the sender name "MLOps Bot" and exactly
\* one embed; when metrics is given and non-empty the embed's field list has
\* one {name, value, inline} entry per metrics entry, in the mapping's
\* order, with the value rendered as a string; when metrics is absent or
\* empty the embed has no field list at all.
C13_PayloadFields ==
  (notifier.enabled /\ SentAlert) =>
    /\ Len(wire) = 1
    /\ wire[1].username = "MLOps Bot"
    /\ Len(wire[1].embeds) = 1
    /\ LET embed == wire[1].embeds[1]
           metrics == lastOp.calls[1].metrics
       IN IF metrics.given /\ Len(metrics.items) > 0
          THEN /\ "fields" \in DOMAIN embed
               /\ Len(embed.fields) = Len(metrics.items)
               /\ \A k \in 1..Len(metrics.items) :
                    /\ DOMAIN embed.fields[k] = {"name", "value", "inline"}
                    /\ embed.fields[k].name = metrics.items[k][1]
                    /\ embed.fields[k].value = Rendered(metrics.items[k][2])
                    /\ embed.fields[k].inline = TRUE
          ELSE "fields" \notin DOMAIN embed

C13_Witness ==
  /\ notifier.enabled
  /\ lastOp.op = "send_alert"
  /\ lastOp.calls[1].metrics.items = << <<"b", [i |-> 12]>>, <<"a", [s |-> "x"]>> >>
  /\ wire[1].embeds[1].fields =
       << [name |-> "b", value |-> "12", inline |-> TRUE],
          [name |-> "a", value |-> "x", inline |-> TRUE] >>

\* No inc() call is in progress.
Quiescent ==
  \A c \in Callers : threads[c].pc = "idle"

\* C12: whenever the callers have together completed N increments of
\* cv_predictions_total the counter is exactly N, whatever the interleaving,
\* and no step ever decreases the counter.
C12_NoLostUpdates ==
  /\ [](Quiescent => cv_predictions_total = incCalls)
  /\ [][cv_predictions_total' >= cv_predictions_total]_vars

C12_Witness ==
  /\ Quiescent
  /\ \A c \in Callers : threads[c].done >= 1
  /\ incCalls = 3
  /\ cv_predictions_total = 3

====
